---------------------------- MODULE Spec2Model ----------------------------
(***************************************************************************)
(* The persistent knowledge layer ("Memory") of tinyvegeta:                *)
(*   src/src/memory/lock.rs   the marker-file lock                         *)
(*   src/src/memory/store.rs  the scoped, file-backed key-value store      *)
(*                                                                         *)
(* The file system is the shared state: one document and one lock marker   *)
(* per (scope, scope_id), and the wall clock.  Two specifications share    *)
(* it:                                                                     *)
(*   Spec      one caller; every public operation is one atomic step.      *)
(*   SpecConc  several processes; every operation is split into the file   *)
(*             system calls it makes, which interleave freely.             *)
(*                                                                         *)
(* Times are milliseconds since a base instant (the epoch clock of the     *)
(* code minus a constant); importance is kept in tenths (1.0 is 10).       *)
(***************************************************************************)
EXTENDS Integers, Sequences, FiniteSets, TLC

(***************************************************************************)
(* Program constants                                                       *)
(***************************************************************************)
LOCK_TIMEOUT_MS == 5000

GLOBAL_LIMIT == 2000

AGENT_LIMIT == 1500

TEAM_LIMIT == 1500

TASK_LIMIT == 750

\* Granularity, in milliseconds of updated_at, of the f32 eviction score
\* importance * 10.0 + (updated_at as f32 / 1e12) for a sum in [8, 16):
\* the i64 -> f32 cast keeps multiples of 2^17 ms and the sum keeps 2^-20,
\* so timestamps closer than about 2^20 ms give the same score.
SCORE_QUANTUM_MS == 1048576

\* Granularity, in milliseconds of updated_at, of the f32 relevance score
\* for a sum in [2, 4): 2^-22 * 1.5e12.
RELEVANCE_QUANTUM_MS == 357627

\* importance values in tenths: MemoryEntry::new, the merge and the promotion.
NEW_IMPORTANCE == 10

MERGE_BONUS == 2

PROMOTE_BONUS == 3

(***************************************************************************)
(* Bounds of the model                                                     *)
(***************************************************************************)
\* The caps are divided by CapScale, so that a store of few keys overflows.
CapScale == 700

\* Clock steps the model may take.
MaxTicks == 1

\* Importance (tenths) above which compact is not run again.
MaxImportance == 13

\* Calls the processes of SpecConc may start.
MaxCalls == 2

None == "none"

\* Option<i64>::None of expires_at
NoTime == -1

Keys == {"a", "B.owner", "c"}

\* The byte-wise order of the keys (Vec<String>::sort).
KeyOrder == <<"B.owner", "a", "c">>

Values == {"Build succeeded", "build succeeded!!"}

Categories == {"notes"}

Queries == {"", "build"}

Limits == {1, 2}

\* The (scope, scope_id) pairs a caller passes.
Requests == {<<"global", None>>, <<"task", "t1">>, <<"task", None>>}

\* Pairs as the HTTP API and the command line hand them over unchecked: no
\* scope_id, an empty one, one with a parent-directory component, one for
\* the Global scope (which ignores it).
PathRequests ==
    {<<"agent", None>>, <<"team", None>>, <<"task", "">>, <<"agent", "../global">>,
     <<"global", "x">>}

\* Pairs of the Agent and Team families, one of them with the empty id
ScanRequests == {<<"agent", "a1">>, <<"team", "m1">>, <<"agent", "">>}

(***************************************************************************)
(* Text                                                                    *)
(***************************************************************************)
\* str::to_lowercase on the texts of the model
to_lowercase(s) ==
    CASE s = "B.owner"         -> "b.owner"
      [] s = "Build succeeded" -> "build succeeded"
      [] OTHER                 -> s

(***************************************************************************)
(* Entry model                                                             *)
(***************************************************************************)
\* MemoryEntry::new
NewEntry(key, value, scope, scope_id, t) ==
    [key |-> key, value |-> value, scope |-> scope, scope_id |-> scope_id,
     category |-> None, created_at |-> t, updated_at |-> t,
     expires_at |-> NoTime, importance |-> NEW_IMPORTANCE]

\* is_expired with the comparison turned around
is_expired_flipped(e, t) ==
    IF e.expires_at # NoTime THEN t < e.expires_at ELSE FALSE

\* MemoryEntry::is_expired, at clock reading t
is_expired(e, t) ==
    IF e.expires_at # NoTime THEN t > e.expires_at ELSE FALSE

(***************************************************************************)
(* MemoryStore: a map from key to entry, as a function on a set of keys    *)
(***************************************************************************)
EmptyStore == [k \in {} |-> None]

\* store_get without the test of expiry
store_get_any(store, key, t) ==
    IF key \in DOMAIN store THEN {store[key]} ELSE {}

\* MemoryStore::get: an Option, as the set of at most one entry
store_get(store, key, t) ==
    IF key \in DOMAIN store /\ ~is_expired(store[key], t)
    THEN {store[key]} ELSE {}

\* MemoryStore::set
store_set(store, entry) ==
    [k \in DOMAIN store \cup {entry.key} |->
        IF k = entry.key THEN entry ELSE store[k]]

\* A delete that takes the entries of the keys after `key` along
store_delete_from(store, key) ==
    [k \in {x \in DOMAIN store :
               \E i, j \in DOMAIN KeyOrder :
                  KeyOrder[i] = x /\ KeyOrder[j] = key /\ i < j} |-> store[k]]

\* MemoryStore::delete
store_delete(store, key) ==
    [k \in DOMAIN store \ {key} |-> store[k]]

\* MemoryStore::list_by_scope
list_by_scope(store, scope, scope_id, t) ==
    {store[k] : k \in {x \in DOMAIN store :
        /\ store[x].scope = scope
        /\ (scope_id = None \/ store[x].scope_id = scope_id)
        /\ ~is_expired(store[x], t)}}

\* list_by_category that leaves out the entries of Agent and Team scope
list_by_category_scoped(store, category, t) ==
    {store[k] : k \in {x \in DOMAIN store :
        /\ store[x].category = category /\ ~is_expired(store[x], t)
        /\ store[x].scope \in {"global", "task"}}}

\* MemoryStore::list_by_category
list_by_category(store, category, t) ==
    {store[k] : k \in {x \in DOMAIN store :
        store[x].category = category /\ ~is_expired(store[x], t)}}

\* cleanup whose retain keeps the expired entries instead
cleanup_inverted(store, t) ==
    [k \in {x \in DOMAIN store : is_expired(store[x], t)} |-> store[k]]

\* MemoryStore::cleanup: the store without its expired entries
cleanup(store, t) ==
    [k \in {x \in DOMAIN store : ~is_expired(store[x], t)} |-> store[k]]


(***************************************************************************)
(* Scoped store: path resolution, whole-document load and save             *)
(***************************************************************************)
ErrMissingScopeId == "missing_scope_id"

\* The file the operating system opens for a path under the memory
\* directory: PathBuf::join keeps ".." components and the lookup follows
\* them (ensure_memory_dirs has created agents/, teams/ and tasks/).
resolve(path) ==
    CASE path = "agents/../global.json" -> "global.json"
      [] OTHER                          -> path

\* get_memory_file that falls back to the global document without an id
get_memory_file_global_fallback(scope, scope_id) ==
    IF scope = "global" \/ scope_id = None THEN "global.json"
    ELSE resolve(scope \o "s/" \o scope_id \o ".json")

\* get_memory_file: the document's path under the memory directory
get_memory_file(scope, scope_id) ==
    IF scope = "global" THEN "global.json"
    ELSE IF scope_id = None THEN ErrMissingScopeId
    ELSE resolve(scope \o "s/" \o scope_id \o ".json")

Paths ==
    {get_memory_file(r[1], r[2]) : r \in Requests \cup PathRequests \cup ScanRequests}
        \ {ErrMissingScopeId}

\* entry.path().extension() == "json" of the directory scans: a file name
\* that begins with its only dot, as ".json" does, has no extension.
has_json_extension(path) == path \notin {"agents/.json", "tasks/.json"}

\* A document on disk: absent, a parsable MemoryStore, or bytes that
\* serde_json rejects (an empty or cut-off file, foreign content).
Absent == [kind |-> "absent", entries |-> EmptyStore]

Garbage == [kind |-> "garbage", entries |-> EmptyStore]

Json(store) == [kind |-> "json", entries |-> store]

\* load_store: <<"ok", store>> or <<"err", _>>
load_store(doc) ==
    IF doc.kind = "absent" THEN <<"ok", EmptyStore>>
    ELSE IF doc.kind = "json" THEN <<"ok", doc.entries>>
    ELSE <<"err", EmptyStore>>

\* load_store(..).unwrap_or_default() of the write paths
load_or_default(doc) ==
    IF load_store(doc)[1] = "ok" THEN load_store(doc)[2] ELSE EmptyStore

(***************************************************************************)
(* Capacity enforcer                                                       *)
(***************************************************************************)
\* scope_limit, scaled by CapScale
scope_limit(scope) ==
    CASE scope = "global" -> GLOBAL_LIMIT \div CapScale
      [] scope = "agent"  -> AGENT_LIMIT \div CapScale
      [] scope = "team"   -> TEAM_LIMIT \div CapScale
      [] scope = "task"   -> TASK_LIMIT \div CapScale

\* The sort key of prune_store as f32 computes it, in units of 2^-20:
\* importance * 10.0 is exact, updated_at / 1e12 is rounded to the
\* granularity of the sum, which doubles once the sum reaches 16.0.
eviction_score(e) ==
    LET q == IF e.importance + 1 >= 16 THEN 2 * SCORE_QUANTUM_MS
                                       ELSE SCORE_QUANTUM_MS
    IN  e.importance * 1048576 + (e.updated_at \div q) * (q \div SCORE_QUANTUM_MS)

\* The orders in which store.entries.values() may yield the entries: the
\* iteration order of a HashMap is arbitrary.
values_orders(store) ==
    LET n == Cardinality(DOMAIN store) IN
    {o \in [1..n -> DOMAIN store] : \A i, j \in 1..n : o[i] = o[j] => i = j}

\* sort_by with the two scores compared the other way round
sort_by_score_descending(store, order) ==
    LET score == [i \in DOMAIN order |-> eviction_score(store[order[i]])]
        rank  == [i \in DOMAIN order |->
                    Cardinality({j \in DOMAIN order :
                        \/ score[j] > score[i]
                        \/ score[j] = score[i] /\ j < i}) + 1]
    IN  [p \in DOMAIN order |-> order[CHOOSE i \in DOMAIN order : rank[i] = p]]

\* entries.sort_by(score ascending): a stable sort, so an entry goes after
\* the entries of lower score and after those of equal score that came
\* before it in the vector.
sort_by_score(store, order) ==
    LET score == [i \in DOMAIN order |-> eviction_score(store[order[i]])]
        rank  == [i \in DOMAIN order |->
                    Cardinality({j \in DOMAIN order :
                        \/ score[j] < score[i]
                        \/ score[j] = score[i] /\ j < i}) + 1]
    IN  [p \in DOMAIN order |-> order[CHOOSE i \in DOMAIN order : rank[i] = p]]

\* The sets of map keys prune_store may take: the first n entries of the
\* sorted vector, for every order the map may have yielded.
prune_victims(store, n) ==
    {{sort_by_score(store, o)[i] : i \in 1..n} : o \in values_orders(store)}

\* prune_store that lets a store of limit + 1 entries through
prune_store_off_by_one(store, scope) ==
    LET limit == scope_limit(scope) + 1 IN
    IF Cardinality(DOMAIN store) <= limit THEN {store}
    ELSE {[k \in DOMAIN store \ {store[r].key : r \in R} |-> store[k]] :
            R \in prune_victims(store, Cardinality(DOMAIN store) - limit)}

\* prune_store: the stores it may leave (removal is by the entry's key field)
prune_store(store, scope) ==
    LET limit == scope_limit(scope) IN
    IF Cardinality(DOMAIN store) <= limit THEN {store}
    ELSE {[k \in DOMAIN store \ {store[r].key : r \in R} |-> store[k]] :
            R \in prune_victims(store, Cardinality(DOMAIN store) - limit)}

(***************************************************************************)
(* Compactor                                                               *)
(***************************************************************************)
\* normalized: the lowercased text with every character that is not ASCII
\* alphanumeric or whitespace turned into a space, split on whitespace
\* (the join with single spaces is kept as the sequence of words).
normalized(value) ==
    LET s == to_lowercase(value) IN
    CASE s = "build succeeded"   -> <<"build", "succeeded">>
      [] s = "build succeeded!!" -> <<"build", "succeeded">>
      [] s = "rebuild succeeded"   -> <<"rebuild", "succeeded">>
      [] s = "build has succeeded" -> <<"build", "has", "succeeded">>
      [] s = "healthy"           -> <<"healthy">>
      [] s = "build"             -> <<"build">>
      [] s = "a"                 -> <<"a">>
      [] s = "b.owner"           -> <<"b", "owner">>
      [] s = "c"                 -> <<"c">>
      [] s = ""                  -> <<>>

\* The bucket of text_embedding for a word: FNV-1a of its bytes, mod 64.
bucket(word) ==
    CASE word = "build"     -> 9
      [] word = "succeeded" -> 40
      [] word = "healthy"   -> 4
      [] word = "a"         -> 6
      [] word = "b"         -> 19
      [] word = "c"         -> 32
      [] word = "owner"     -> 54
      [] word = "rebuild"   -> 10
      [] word = "has"       -> 57

\* text_embedding before its L2 normalisation, in sparse form: the bucket
\* each word of the text adds 1.0 to
embedding(words) == [i \in DOMAIN words |-> bucket(words[i])]

text_embedding(value) == embedding(normalized(value))

\* The dot product of the two vectors of bucket counts
dot(u, v) ==
    Cardinality({p \in (DOMAIN u) \X (DOMAIN v) : u[p[1]] = v[p[2]]})

\* cosine_sim(text_embedding(a), text_embedding(b)) > 0.95, on the counts:
\* dot / (|u| |v|) > 95/100, squared
cosine_above_095(a, b) ==
    LET u == text_embedding(a)
        v == text_embedding(b)
        d == dot(u, v)
    IN  d > 0 /\ 10000 * d * d > 9025 * dot(u, u) * dot(v, v)

\* The merge condition of compact
similar(a, b) ==
    normalized(a.value) = normalized(b.value) \/ cosine_above_095(a.value, b.value)

\* The keys of a store in sorted order
sorted_keys(store) ==
    SelectSeq(KeyOrder, LAMBDA k : k \in DOMAIN store)

Max(x, y) == IF x >= y THEN x ELSE y

\* A merge step that lets the later key survive and deletes the earlier
merge_step_keeps_later(st, keys, i, j) ==
    IF keys[i] \notin DOMAIN st.store \/ keys[j] \notin DOMAIN st.store THEN st
    ELSE LET a == st.store[keys[i]]
             b == st.store[keys[j]]
         IN  IF similar(a, b)
             THEN [store |->
                     [k \in DOMAIN st.store \ {keys[i]} |->
                        IF k = keys[j]
                        THEN [b EXCEPT !.updated_at = Max(a.updated_at, b.updated_at),
                                       !.importance = Max(a.importance, b.importance)
                                                        + MERGE_BONUS]
                        ELSE st.store[k]],
                   merged |-> st.merged + 1]
             ELSE st

\* A merge step that updates the earlier entry and counts the merge but
\* leaves the later entry in the store
merge_step_keeps_both(st, keys, i, j) ==
    IF keys[i] \notin DOMAIN st.store \/ keys[j] \notin DOMAIN st.store THEN st
    ELSE LET a == st.store[keys[i]]
             b == st.store[keys[j]]
         IN  IF similar(a, b)
             THEN [store |->
                     [st.store EXCEPT ![keys[i]] =
                        [a EXCEPT !.updated_at = Max(a.updated_at, b.updated_at),
                                  !.importance = Max(a.importance, b.importance)
                                                   + MERGE_BONUS]],
                   merged |-> st.merged + 1]
             ELSE st

\* One iteration (i, j) of the merge loops; st = [store, merged]
merge_step(st, keys, i, j) ==
    IF keys[i] \notin DOMAIN st.store \/ keys[j] \notin DOMAIN st.store THEN st
    ELSE LET a == st.store[keys[i]]
             b == st.store[keys[j]]
         IN  IF similar(a, b)
             THEN [store |->
                     [k \in DOMAIN st.store \ {keys[j]} |->
                        IF k = keys[i]
                        THEN [a EXCEPT !.updated_at = Max(a.updated_at, b.updated_at),
                                       !.importance = Max(a.importance, b.importance)
                                                        + MERGE_BONUS]
                        ELSE st.store[k]],
                   merged |-> st.merged + 1]
             ELSE st

\* The merge loops: for i in 0..n, for j in i+1..n
RECURSIVE merge_loop(_, _, _, _)
merge_loop(st, keys, i, j) ==
    IF i > Len(keys) THEN st
    ELSE IF j > Len(keys) THEN merge_loop(st, keys, i + 1, i + 2)
    ELSE merge_loop(merge_step(st, keys, i, j), keys, i, j + 1)

\* key.to_lowercase() contains "decision", "owner", "workspace" or "incident"
high_signal(key) == to_lowercase(key) \in {"b.owner"}

\* A promotion pass that puts the promoted entry back under the lowercased
\* key it has computed for the test
promote_reinserts_lowercased(store) ==
    LET hs == {k \in DOMAIN store : high_signal(store[k].key)} IN
    [k \in DOMAIN store \cup {to_lowercase(x) : x \in hs} |->
        IF k \in DOMAIN store /\ ~(\E x \in hs : to_lowercase(x) = k)
        THEN store[k]
        ELSE LET x == CHOOSE x \in hs : to_lowercase(x) = k IN
             [store[x] EXCEPT !.key = k, !.importance = @ + PROMOTE_BONUS]]

\* A promotion pass that skips the entries it has promoted before
promote_once(store) ==
    [k \in DOMAIN store |->
        IF high_signal(store[k].key) /\ store[k].importance < NEW_IMPORTANCE + PROMOTE_BONUS
        THEN [store[k] EXCEPT !.importance = @ + PROMOTE_BONUS]
        ELSE store[k]]

\* The promotion pass
promote(store) ==
    [k \in DOMAIN store |->
        IF high_signal(store[k].key)
        THEN [store[k] EXCEPT !.importance = @ + PROMOTE_BONUS]
        ELSE store[k]]

\* A compact whose pruned counter starts from the size of the loaded store
compact_store_pruned_from_loaded(loaded, scope, t) ==
    LET cleaned  == cleanup(loaded, t)
        m        == merge_loop([store |-> cleaned, merged |-> 0],
                               sorted_keys(cleaned), 1, 2)
        promoted == promote(m.store)
    IN  {[store  |-> s,
          report |-> {[expired_removed |-> Cardinality(DOMAIN loaded)
                                            - Cardinality(DOMAIN cleaned),
                      merged   |-> m.merged,
                      promoted |-> Cardinality({k \in DOMAIN m.store :
                                                  high_signal(m.store[k].key)}),
                      pruned   |-> Cardinality(DOMAIN loaded)
                                     - Cardinality(DOMAIN s)]}] :
         s \in prune_store(promoted, scope)}

\* The closure of Memory::compact: the (store, report) pairs it may save
compact_store(loaded, scope, t) ==
    LET cleaned  == cleanup(loaded, t)
        m        == merge_loop([store |-> cleaned, merged |-> 0],
                               sorted_keys(cleaned), 1, 2)
        promoted == promote(m.store)
    IN  {[store  |-> s,
          report |-> {[expired_removed |-> Cardinality(DOMAIN loaded)
                                            - Cardinality(DOMAIN cleaned),
                      merged   |-> m.merged,
                      promoted |-> Cardinality({k \in DOMAIN m.store :
                                                  high_signal(m.store[k].key)}),
                      pruned   |-> Cardinality(DOMAIN promoted)
                                     - Cardinality(DOMAIN s)]}] :
         s \in prune_store(promoted, scope)}

\* The entry Memory::set builds: fresh, with the category of the entry
\* that store.get finds under the key
set_entry(loaded, key, value, scope, scope_id, t) ==
    LET fresh    == NewEntry(key, value, scope, scope_id, t)
        existing == store_get(loaded, key, t)
    IN  IF existing # {}
        THEN [fresh EXCEPT !.category = (CHOOSE e \in existing : TRUE).category]
        ELSE fresh

\* The store of Memory::set after store.set(entry), before prune_store
set_insert(loaded, key, value, scope, scope_id, t) ==
    store_set(loaded, set_entry(loaded, key, value, scope, scope_id, t))

\* The closure of Memory::set: the stores it may save
set_store(loaded, key, value, scope, scope_id, t) ==
    prune_store(set_insert(loaded, key, value, scope, scope_id, t), scope)

(***************************************************************************)
(* Search and the relevance ranker                                         *)
(***************************************************************************)
\* text.to_lowercase().contains(query.to_lowercase()), on the texts and
\* queries of the model
contains_lower(text, query) ==
    \/ query = ""
    \/ /\ to_lowercase(query) = "build"
       /\ to_lowercase(text) \in {"build succeeded", "build succeeded!!", "build",
                                  "rebuild succeeded", "build has succeeded"}
    \/ /\ to_lowercase(query) = "build succeeded"
       /\ to_lowercase(text) \in {"build succeeded", "build succeeded!!",
                                  "rebuild succeeded"}
    \/ /\ to_lowercase(query) = "succeeded"
       /\ to_lowercase(text) \in {"build succeeded", "build succeeded!!",
                                  "rebuild succeeded", "build has succeeded"}

\* MemoryStore::search
store_search(store, query, t) ==
    {store[k] : k \in {x \in DOMAIN store :
        /\ ~is_expired(store[x], t)
        /\ (contains_lower(store[x].key, query) \/ contains_lower(store[x].value, query))}}

\* q.split_whitespace() without the tokens shorter than 3 bytes
long_tokens(query) ==
    CASE query = "build"           -> <<"build">>
      [] query = "build succeeded" -> <<"build", "succeeded">>
      [] OTHER                     -> <<>>

\* The integer square root of x, between lo and hi
RECURSIVE isqrt(_, _, _)
isqrt(x, lo, hi) ==
    IF lo >= hi THEN lo
    ELSE LET mid == (lo + hi + 1) \div 2 IN
         IF mid * mid <= x THEN isqrt(x, mid, hi) ELSE isqrt(x, lo, mid - 1)

\* cosine_sim of two count vectors in thousandths, rounded down:
\* dot / sqrt(|u|^2 |v|^2)
cosine_milli(u, v) ==
    LET d  == dot(u, v)
        nn == dot(u, u) * dot(v, v)
    IN  IF d = 0 \/ nn = 0 THEN 0
        ELSE isqrt((1000000 * d * d) \div nn, 0, 1000)

\* The score of a ranker without the +4.0 for the whole query
relevance_milli_no_phrase(e, query) ==
    e.importance * 100
    + IF query = "" THEN 0
      ELSE 800 * Cardinality({i \in DOMAIN long_tokens(query) :
                      \/ contains_lower(e.key, long_tokens(query)[i])
                      \/ contains_lower(e.value, long_tokens(query)[i])})
           + 3 * cosine_milli(embedding(normalized(query)),
                              embedding(normalized(e.key) \o normalized(e.value)))

\* The part of the score of Memory::relevant that does not depend on the
\* clock, in thousandths: importance, +4.0 for the whole query, +0.8 per
\* long token, +3.0 * cosine
relevance_milli(e, query) ==
    e.importance * 100
    + IF query = "" THEN 0
      ELSE (IF contains_lower(e.key, query) \/ contains_lower(e.value, query)
            THEN 4000 ELSE 0)
           + 800 * Cardinality({i \in DOMAIN long_tokens(query) :
                      \/ contains_lower(e.key, long_tokens(query)[i])
                      \/ contains_lower(e.value, long_tokens(query)[i])})
           + 3 * cosine_milli(embedding(normalized(query)),
                              embedding(normalized(e.key) \o normalized(e.value)))

\* The score as f32 orders it: the recency term updated_at / 1.5e12 (about
\* 1.19 at the base instant) is rounded to the granularity of the sum.
relevance_score(e, query) ==
    LET m == relevance_milli(e, query)
        q == IF m + 1193 >= 8000 THEN 4 * RELEVANCE_QUANTUM_MS
             ELSE IF m + 1193 >= 4000 THEN 2 * RELEVANCE_QUANTUM_MS
             ELSE RELEVANCE_QUANTUM_MS
    IN  m * 64 + (e.updated_at \div q) * (q \div RELEVANCE_QUANTUM_MS)

\* The results of a ranker that sorts by ascending score
relevant_results_ascending(store, query, limit, t) ==
    LET cand == {k \in DOMAIN store : ~is_expired(store[k], t)}
        n    == IF Cardinality(cand) < limit THEN Cardinality(cand) ELSE limit
        sc   == [k \in cand |-> relevance_score(store[k], query)]
    IN  {[i \in 1..n |-> [store[ks[i]] EXCEPT !.importance = sc[ks[i]]]] :
            ks \in {f \in [1..n -> cand] :
                     /\ \A i, j \in 1..n : i < j => f[i] # f[j] /\ sc[f[i]] <= sc[f[j]]
                     /\ \A k \in cand \ {f[i] : i \in 1..n} :
                           \A i \in 1..n : sc[f[i]] <= sc[k]}}

\* The results Memory::relevant may return for a loaded store: the first
\* `limit` of the unexpired entries, each with its score as importance, in
\* a stable descending sort of an arbitrary iteration order.
relevant_results(store, query, limit, t) ==
    LET cand == {k \in DOMAIN store : ~is_expired(store[k], t)}
        n    == IF Cardinality(cand) < limit THEN Cardinality(cand) ELSE limit
        sc   == [k \in cand |-> relevance_score(store[k], query)]
    IN  {[i \in 1..n |-> [store[ks[i]] EXCEPT !.importance = sc[ks[i]]]] :
            ks \in {f \in [1..n -> cand] :
                     /\ \A i, j \in 1..n : i < j => f[i] # f[j] /\ sc[f[i]] >= sc[f[j]]
                     /\ \A k \in cand \ {f[i] : i \in 1..n} :
                           \A i \in 1..n : sc[f[i]] >= sc[k]}}

(***************************************************************************)
(* Lock manager                                                            *)
(***************************************************************************)
NoMarker == [owner |-> None, mtime |-> 0]

\* The age acquire_lock computes: an unsigned 64-bit difference, which
\* wraps to a huge value when the marker is newer than the clock reading.
lock_age(marker, t) ==
    IF t >= marker.mtime THEN t - marker.mtime ELSE 2147483647

\* The subtraction of acquire_lock under the two builds: with overflow
\* checks (the debug profile) a marker newer than the clock reading makes
\* it panic, without them (the release profile) it wraps as in lock_age.
\* TRUE: the subtraction panics.
age_overflow_checks(marker, t) ==
    IF marker # NoMarker /\ t < marker.mtime THEN {TRUE, FALSE} ELSE {FALSE}

\* lock_held with the comparison of the age turned around
lock_held_inverted(marker, t) ==
    marker # NoMarker /\ lock_age(marker, t) > LOCK_TIMEOUT_MS

\* lock_held with a marker of exactly the timeout's age still held
lock_held_at_timeout(marker, t) ==
    marker # NoMarker /\ lock_age(marker, t) <= LOCK_TIMEOUT_MS

\* acquire_lock fails: the marker exists and is younger than the timeout
lock_held(marker, t) ==
    marker # NoMarker /\ lock_age(marker, t) < LOCK_TIMEOUT_MS

(***************************************************************************)
(* State                                                                   *)
(***************************************************************************)
VARIABLES
    docs,    \* path -> the document on disk
    locks,   \* path -> the lock marker <path>.lock (NoMarker: no file)
    now,     \* the wall clock, ms
    ticks,   \* clock steps taken
    last,    \* the latest call of the single caller and what it returned
    target,  \* the (scope, scope_id) the callers work on in this run
    pc,      \* SpecConc: process -> the system call it makes next
    call,    \* SpecConc: process -> its current (or latest) call
    local,   \* SpecConc: process -> the store its closure is about to save
    calls    \* SpecConc: calls started

procvars == <<pc, call, local, calls>>

vars == <<docs, locks, now, ticks, last, target, pc, call, local, calls>>

Procs == {"p1", "p2"}

scope_of(path) ==
    CASE path = "global.json"                        -> "global"
      [] path \in {"agents/a1.json", "agents/.json"} -> "agent"
      [] path = "teams/m1.json"                      -> "team"
      [] OTHER                                       -> "task"

id_of(path) ==
    CASE path = "global.json"   -> None
      [] path = "tasks/t1.json" -> "t1"
      [] path = "tasks/.json"   -> ""
      [] path = "agents/a1.json" -> "a1"
      [] path = "agents/.json"  -> ""
      [] path = "teams/m1.json" -> "m1"

\* A document written before the run by another producer of the format:
\* one entry with a category and a time to live.
SeedStore(path) ==
    [k \in {"a"} |->
        [key |-> "a", value |-> "healthy", scope |-> scope_of(path),
         scope_id |-> id_of(path), category |-> "notes", created_at |-> 0,
         updated_at |-> 0, expires_at |-> 0, importance |-> NEW_IMPORTANCE]]

NoCall == [op |-> "none", key |-> None, value |-> None, scope |-> None,
           scope_id |-> None, res |-> None, out |-> {}, found |-> None]

\* A call, its result, and what the document it names was when it began
Call(op, key, value, scope, scope_id, res, out) ==
    [op |-> op, key |-> key, value |-> value, scope |-> scope,
     scope_id |-> scope_id, res |-> res, out |-> out,
     found |-> IF get_memory_file(scope, scope_id) \in Paths
               THEN docs[get_memory_file(scope, scope_id)].kind
               ELSE None]

\* What another producer wrote before the run: a document for each pair
\* of Requests that names one
SeedDocs ==
    [p \in Paths |->
        IF p \in {get_memory_file(r[1], r[2]) : r \in Requests}
        THEN Json(SeedStore(p)) ELSE Absent]

\* No call has been made yet, no marker is left, and the run has its target
InitCalls ==
    /\ locks = [p \in Paths |-> NoMarker]
    /\ now = 0
    /\ ticks = 0
    /\ last = NoCall
    /\ target \in {r \in Requests : get_memory_file(r[1], r[2]) \in Paths}
    /\ pc = [p \in Procs |-> "idle"]
    /\ call = [p \in Procs |-> NoCall]
    /\ local = [p \in Procs |-> EmptyStore]
    /\ calls = 0

\* The documents are all absent, or all hold what another producer wrote
Init ==
    /\ docs \in [Paths -> {Absent}] \cup {SeedDocs}
    /\ InitCalls

\* As Init, or the documents are all unparsable
InitWrite ==
    /\ docs \in {d \in [Paths -> {Absent, Garbage}] :
                   \A p \in Paths : d[p] = Garbage => SeedDocs[p] # Absent}
                \cup {SeedDocs}
    /\ InitCalls

(***************************************************************************)
(* The clock                                                               *)
(***************************************************************************)
Tick(d) ==
    /\ ticks < MaxTicks
    /\ ticks' = ticks + 1
    /\ now' = now + d
    /\ UNCHANGED <<docs, locks, last, target, procvars>>

(***************************************************************************)
(* The public operations, each as one step of a single caller              *)
(***************************************************************************)
\* with_lock around a closure that saves one of `stores`: acquire_lock
\* (fail on a fresh marker, else replace it), the closure, the drop of the
\* handle (the marker is removed).
WithLockSave(path, stores, op, key, value, scope, scope_id) ==
    \E checked \in age_overflow_checks(locks[path], now) :
       IF checked
       THEN /\ last' = Call(op, key, value, scope, scope_id, "panic", {})
            /\ UNCHANGED <<docs, locks>>
       ELSE IF lock_held(locks[path], now)
       THEN /\ last' = Call(op, key, value, scope, scope_id, "lock_held", {})
            /\ UNCHANGED <<docs, locks>>
       ELSE \E s \in stores :
            /\ docs' = [docs EXCEPT ![path] = Json(s.store)]
            /\ locks' = [locks EXCEPT ![path] = NoMarker]
            /\ last' = Call(op, key, value, scope, scope_id, "ok", s.report)

\* Memory::set
Set(key, value, scope, scope_id) ==
    LET path == get_memory_file(scope, scope_id) IN
    /\ UNCHANGED <<now, ticks, target, procvars>>
    /\ IF path = ErrMissingScopeId
       THEN /\ last' = Call("set", key, value, scope, scope_id, path, {})
            /\ UNCHANGED <<docs, locks>>
       ELSE WithLockSave(path,
                {[store |-> s, report |-> {}] :
                    s \in set_store(load_or_default(docs[path]), key, value,
                                    scope, scope_id, now)},
                "set", key, value, scope, scope_id)

\* Memory::get: <<result, entry>>
memory_get(key, scope, scope_id) ==
    LET path == get_memory_file(scope, scope_id) IN
    IF path = ErrMissingScopeId THEN <<path, {}>>
    ELSE IF docs[path].kind = "absent" THEN <<"ok", {}>>
    ELSE IF load_store(docs[path])[1] = "err" THEN <<"parse_error", {}>>
    ELSE <<"ok", store_get(load_store(docs[path])[2], key, now)>>

\* A get that runs under with_lock
Get_under_lock(key, scope, scope_id) ==
    LET path == get_memory_file(scope, scope_id) IN
    /\ UNCHANGED <<docs, now, ticks, target, procvars>>
    /\ IF path \in Paths /\ docs[path].kind # "absent" /\ lock_held(locks[path], now)
       THEN /\ last' = Call("get", key, None, scope, scope_id, "lock_held", {})
            /\ UNCHANGED locks
       ELSE /\ last' = Call("get", key, None, scope, scope_id,
                            memory_get(key, scope, scope_id)[1],
                            memory_get(key, scope, scope_id)[2])
            /\ locks' = [p \in Paths |-> IF p = path THEN NoMarker ELSE locks[p]]

Get(key, scope, scope_id) ==
    /\ last' = Call("get", key, None, scope, scope_id,
                    memory_get(key, scope, scope_id)[1],
                    memory_get(key, scope, scope_id)[2])
    /\ UNCHANGED <<docs, locks, now, ticks, target, procvars>>

\* A delete whose closure passes the parse error of load_store on
Delete_strict(key, scope, scope_id) ==
    LET path == get_memory_file(scope, scope_id) IN
    /\ UNCHANGED <<now, ticks, target, procvars>>
    /\ IF path = ErrMissingScopeId
       THEN /\ last' = Call("delete", key, None, scope, scope_id, path, {})
            /\ UNCHANGED <<docs, locks>>
       ELSE IF docs[path].kind = "absent"
       THEN /\ last' = Call("delete", key, None, scope, scope_id, "ok", {})
            /\ UNCHANGED <<docs, locks>>
       ELSE IF load_store(docs[path])[1] = "err"
       THEN /\ last' = Call("delete", key, None, scope, scope_id, "parse_error", {})
            /\ UNCHANGED <<docs, locks>>
       ELSE WithLockSave(path,
                {[store |-> store_delete(load_or_default(docs[path]), key),
                  report |-> {}]},
                "delete", key, None, scope, scope_id)

\* Memory::delete
Delete(key, scope, scope_id) ==
    LET path == get_memory_file(scope, scope_id) IN
    /\ UNCHANGED <<now, ticks, target, procvars>>
    /\ IF path = ErrMissingScopeId
       THEN /\ last' = Call("delete", key, None, scope, scope_id, path, {})
            /\ UNCHANGED <<docs, locks>>
       ELSE IF docs[path].kind = "absent"
       THEN /\ last' = Call("delete", key, None, scope, scope_id, "ok", {})
            /\ UNCHANGED <<docs, locks>>
       ELSE WithLockSave(path,
                {[store |-> store_delete(load_or_default(docs[path]), key),
                  report |-> {}]},
                "delete", key, None, scope, scope_id)

\* Memory::list: <<result, entries>>
memory_list(scope, scope_id, category) ==
    LET path == get_memory_file(scope, scope_id) IN
    IF path = ErrMissingScopeId THEN <<path, {}>>
    ELSE IF docs[path].kind = "absent" THEN <<"ok", {}>>
    ELSE IF load_store(docs[path])[1] = "err" THEN <<"parse_error", {}>>
    ELSE <<"ok", IF category # None
                 THEN list_by_category(load_store(docs[path])[2], category, now)
                 ELSE list_by_scope(load_store(docs[path])[2], scope, scope_id, now)>>

List(scope, scope_id, category) ==
    /\ last' = Call("list", category, None, scope, scope_id,
                    memory_list(scope, scope_id, category)[1],
                    memory_list(scope, scope_id, category)[2])
    /\ UNCHANGED <<docs, locks, now, ticks, target, procvars>>

\* The files a scan of the directory of a family reads: those with the
\* extension json
scanned(family) ==
    {p \in Paths : scope_of(p) = family /\ has_json_extension(p)}

\* The documents Memory::search scans: global, every agent, every team
SearchedPaths == {"global.json"} \cup scanned("agent") \cup scanned("team")

\* The matches of the documents of P that parse (the scans skip the rest)
hits(P, query) ==
    UNION {store_search(docs[p].entries, query, now) :
             p \in {x \in P : docs[x].kind = "json"}}

\* Memory::search: <<result, the sets of entries it may return>>.  The
\* matches come family by family (global, agents, teams), within a family
\* in directory and map order, and are cut at `limit`.
memory_search(query, limit) ==
    IF docs["global.json"].kind = "garbage" THEN <<"parse_error", {{}}>>
    ELSE LET first  == hits({"global.json"}, query)
             second == first \cup hits(scanned("agent"), query)
             found  == second \cup hits(scanned("team"), query)
             n      == IF Cardinality(found) < limit THEN Cardinality(found) ELSE limit
         IN  <<"ok", {R \in SUBSET found :
                        /\ Cardinality(R) = n
                        /\ (first \subseteq R \/ R \subseteq first)
                        /\ (second \subseteq R \/ R \subseteq second)}>>

Search(query, limit) ==
    /\ LET m == memory_search(query, limit) IN
       \E R \in m[2] : last' = Call("search", query, None, None, None, m[1], R)
    /\ UNCHANGED <<docs, locks, now, ticks, target, procvars>>

\* The number of entries in the documents of P that parse
RECURSIVE entry_count(_)
entry_count(P) ==
    IF P = {} THEN 0
    ELSE LET p == CHOOSE x \in P : TRUE IN
         (IF docs[p].kind = "json" THEN Cardinality(DOMAIN docs[p].entries) ELSE 0)
           + entry_count(P \ {p})

\* Memory::stats: <<result, MemoryStats>>
memory_stats ==
    IF docs["global.json"].kind = "garbage" THEN <<"parse_error", {}>>
    ELSE LET g == entry_count({"global.json"})
             a == entry_count(scanned("agent"))
             k == entry_count(scanned("task"))
             m == entry_count(scanned("team"))
         IN  <<"ok", {[global |-> g, agents |-> a, teams |-> m, tasks |-> k,
                       total |-> g + a + m + k]}>>

Stats ==
    /\ last' = Call("stats", None, None, None, None, memory_stats[1], memory_stats[2])
    /\ UNCHANGED <<docs, locks, now, ticks, target, procvars>>

\* Memory::relevant: <<result, the sequences of entries it may return>>
memory_relevant(query, scope, scope_id, limit) ==
    LET path == get_memory_file(scope, scope_id) IN
    IF path = ErrMissingScopeId THEN <<path, {<<>>}>>
    ELSE IF docs[path].kind = "absent" THEN <<"ok", {<<>>}>>
    ELSE IF load_store(docs[path])[1] = "err" THEN <<"parse_error", {<<>>}>>
    ELSE <<"ok", relevant_results(load_store(docs[path])[2], query, limit, now)>>

Relevant(query, scope, scope_id, limit) ==
    /\ LET m == memory_relevant(query, scope, scope_id, limit) IN
       \E r \in m[2] :
          last' = Call("relevant", query, None, scope, scope_id, m[1], {r})
    /\ UNCHANGED <<docs, locks, now, ticks, target, procvars>>

\* Memory::clear
Clear(scope, scope_id) ==
    LET path == get_memory_file(scope, scope_id) IN
    /\ UNCHANGED <<locks, now, ticks, target, procvars>>
    /\ IF path = ErrMissingScopeId
       THEN /\ last' = Call("clear", None, None, scope, scope_id, path, {})
            /\ UNCHANGED docs
       ELSE /\ docs' = [docs EXCEPT ![path] = Absent]
            /\ last' = Call("clear", None, None, scope, scope_id, "ok", {})

\* Memory::compact
Compact(scope, scope_id) ==
    LET path == get_memory_file(scope, scope_id) IN
    /\ UNCHANGED <<now, ticks, target, procvars>>
    /\ IF path = ErrMissingScopeId
       THEN /\ last' = Call("compact", None, None, scope, scope_id, path, {})
            /\ UNCHANGED <<docs, locks>>
       ELSE IF docs[path].kind = "absent"
       THEN /\ last' = Call("compact", None, None, scope, scope_id, "ok",
                            {[expired_removed |-> 0, merged |-> 0,
                              promoted |-> 0, pruned |-> 0]})
            /\ UNCHANGED <<docs, locks>>
       ELSE /\ \A k \in DOMAIN docs[path].entries :
                  docs[path].entries[k].importance <= MaxImportance
            /\ WithLockSave(path,
                   compact_store(load_or_default(docs[path]), scope, now),
                   "compact", None, None, scope, scope_id)

\* What the caller passes: its target, with or without the scope_id
TargetRequests == {r \in Requests : r[1] = target[1]}

Next ==
    \/ \E d \in {2500, SCORE_QUANTUM_MS} : Tick(d)
    \/ \E k \in Keys, v \in Values, r \in TargetRequests : Set(k, v, r[1], r[2])
    \/ \E k \in Keys, r \in TargetRequests : Get(k, r[1], r[2])
    \/ \E k \in Keys, r \in TargetRequests : Delete(k, r[1], r[2])
    \/ \E r \in TargetRequests, c \in Categories \cup {None} : List(r[1], r[2], c)
    \/ \E r \in TargetRequests : Clear(r[1], r[2])
    \/ \E r \in TargetRequests : Compact(r[1], r[2])

Spec == Init /\ [][Next]_vars

\* The caller of SpecQuery writes and queries: search, the ranker, get and
\* list
NextQuery ==
    \/ Tick(SCORE_QUANTUM_MS)
    \/ \E k \in Keys, v \in Values : Set(k, v, target[1], target[2])
    \/ Compact(target[1], target[2])
    \/ \E q \in Queries \ {""}, n \in Limits : Search(q, n)
    \/ \E q \in Queries, r \in TargetRequests, n \in Limits :
          Relevant(q, r[1], r[2], n)
    \/ \E k \in Keys : Get(k, target[1], target[2])
    \/ \E c \in Categories \cup {None} : List(target[1], target[2], c)

SpecQuery == Init /\ [][NextQuery]_vars

\* The caller of SpecWrite only writes, and may find unparsable documents
NextWrite ==
    \/ \E d \in {2500, SCORE_QUANTUM_MS} : Tick(d)
    \/ \E k \in Keys, v \in Values, r \in TargetRequests : Set(k, v, r[1], r[2])
    \/ \E k \in Keys, r \in TargetRequests : Delete(k, r[1], r[2])
    \/ \E r \in TargetRequests : Clear(r[1], r[2])
    \/ \E r \in TargetRequests : Compact(r[1], r[2])

SpecWrite == InitWrite /\ [][NextWrite]_vars

(***************************************************************************)
(* SpecPaths: one caller that passes any pair, whatever the target         *)
(***************************************************************************)
\* A marker a crashed process left on every document, or none
StaleMarker == [owner |-> "other", mtime |-> 0]

InitPaths ==
    /\ docs \in [Paths -> {Absent}] \cup {SeedDocs}
    /\ locks \in {[p \in Paths |-> NoMarker], [p \in Paths |-> StaleMarker]}
    /\ now = 0
    /\ ticks = 0
    /\ last = NoCall
    /\ target = <<"global", None>>
    /\ pc = [p \in Procs |-> "idle"]
    /\ call = [p \in Procs |-> NoCall]
    /\ local = [p \in Procs |-> EmptyStore]
    /\ calls = 0

PathKeys == {"a"}

AnyRequests == Requests \cup PathRequests

NextPaths ==
    \/ Tick(LOCK_TIMEOUT_MS)
    \/ \E k \in PathKeys, r \in AnyRequests : Set(k, "healthy", r[1], r[2])
    \/ \E k \in PathKeys, r \in AnyRequests : Get(k, r[1], r[2])
    \/ \E k \in PathKeys, r \in AnyRequests : Delete(k, r[1], r[2])
    \/ \E r \in AnyRequests, c \in Categories \cup {None} : List(r[1], r[2], c)
    \/ \E r \in AnyRequests : Relevant("", r[1], r[2], 1)
    \/ \E r \in AnyRequests : Clear(r[1], r[2])
    \/ \E r \in AnyRequests : Compact(r[1], r[2])

SpecPaths == InitPaths /\ [][NextPaths]_vars

(***************************************************************************)
(* SpecFresh: one caller that writes, with any pair, into a memory         *)
(* directory that was empty                                                *)
(***************************************************************************)
InitFresh ==
    /\ docs = [p \in Paths |-> Absent]
    /\ InitCalls

\* The pairs the caller passes: well-formed ones, one for the Global scope
\* with an id, one with a parent-directory component
FreshRequests ==
    {<<"global", None>>, <<"task", "t1">>, <<"global", "x">>, <<"agent", "../global">>}

NextFresh ==
    \/ Tick(2500)
    \/ \E k \in {"a", "c"}, r \in FreshRequests : Set(k, "healthy", r[1], r[2])
    \/ \E r \in FreshRequests : Delete("a", r[1], r[2])
    \/ \E r \in FreshRequests : Clear(r[1], r[2])
    \/ \E r \in FreshRequests : Compact(r[1], r[2])

SpecFresh == InitFresh /\ [][NextFresh]_vars

(***************************************************************************)
(* SpecSkew: one caller whose clock is behind the modification time of a   *)
(* marker on disk                                                          *)
(***************************************************************************)
\* A marker written 2500 ms after the caller's first clock reading: by a
\* process on a host whose clock is ahead, or before the clock was set back
FutureMarker == [owner |-> "other", mtime |-> 2500]

InitSkew ==
    /\ docs \in [Paths -> {Absent}] \cup {SeedDocs}
    /\ locks = [p \in Paths |-> FutureMarker]
    /\ now = 0
    /\ ticks = 0
    /\ last = NoCall
    /\ target \in {r \in Requests : get_memory_file(r[1], r[2]) \in Paths}
    /\ pc = [p \in Procs |-> "idle"]
    /\ call = [p \in Procs |-> NoCall]
    /\ local = [p \in Procs |-> EmptyStore]
    /\ calls = 0

NextSkew ==
    \/ Tick(2500)
    \/ \E k \in {"a", "c"} : Set(k, "healthy", target[1], target[2])
    \/ Delete("a", target[1], target[2])
    \/ Compact(target[1], target[2])

SpecSkew == InitSkew /\ [][NextSkew]_vars

(***************************************************************************)
(* SpecScan: one caller that reads a memory directory with documents of    *)
(* every family, some of them unparsable                                   *)
(***************************************************************************)
\* A document written before the run: an entry that matches the query
\* "build" and one that does not, both with a time to live
ScanStore(path) ==
    [k \in {"a", "c"} |->
        [key |-> k, value |-> IF k = "a" THEN "healthy" ELSE "Build succeeded",
         scope |-> scope_of(path), scope_id |-> id_of(path),
         category |-> "notes", created_at |-> 0, updated_at |-> 0,
         expires_at |-> 0, importance |-> NEW_IMPORTANCE]]

\* The stores the caller reads
ScanPairs ==
    {<<"global", None>>, <<"agent", "a1">>, <<"team", "m1">>, <<"task", "t1">>}

InitScan ==
    /\ docs \in {d \in [Paths -> {Absent, Garbage} \cup {Json(ScanStore(p)) : p \in Paths}] :
                   /\ \A p \in Paths : d[p].kind = "json" => d[p] = Json(ScanStore(p))
                   /\ \A p \in Paths :
                         get_memory_file(scope_of(p), id_of(p)) # p
                            \/ <<scope_of(p), id_of(p)>> \notin ScanPairs
                            => d[p] = Absent
                   /\ d["teams/m1.json"] # Garbage
                   /\ d["tasks/t1.json"] # Absent}
    /\ locks \in {[p \in Paths |-> NoMarker], [p \in Paths |-> StaleMarker]}
    /\ now = 0
    /\ ticks = 0
    /\ last = NoCall
    /\ target = <<"global", None>>
    /\ pc = [p \in Procs |-> "idle"]
    /\ call = [p \in Procs |-> NoCall]
    /\ local = [p \in Procs |-> EmptyStore]
    /\ calls = 0

NextScan ==
    \/ Tick(2500)
    \/ \E r \in {<<"agent", "">>, <<"task", "">>} :
          Set("c", "Build succeeded", r[1], r[2])
    \/ \E r \in ScanPairs : Get("c", r[1], r[2])
    \/ \E r \in ScanPairs : List(r[1], r[2], None)
    \/ \E r \in ScanPairs : Relevant("", r[1], r[2], 1)
    \/ \E n \in Limits : Search("build", n)
    \/ Stats

SpecScan == InitScan /\ [][NextScan]_vars

(***************************************************************************)
(* SpecRank: one caller ranking the entries of the Global document         *)
(***************************************************************************)
\* Values and queries of several words: a value can hold the query as a
\* substring without holding its words ("rebuild succeeded"), or hold its
\* words without holding the query ("build has succeeded").
RankValues == {"rebuild succeeded", "build has succeeded", "healthy"}

RankQueries == {"build", "build succeeded"}

\* A Global document of two entries written before the run
RankStore(va, vc, ia, ic, xa) ==
    [k \in {"a", "c"} |->
        [key |-> k, value |-> IF k = "a" THEN va ELSE vc,
         scope |-> "global", scope_id |-> None,
         category |-> None, created_at |-> 0, updated_at |-> 0,
         expires_at |-> IF k = "a" THEN xa ELSE NoTime,
         importance |-> IF k = "a" THEN ia ELSE ic]]

InitRank ==
    /\ \E va, vc \in RankValues, ia, ic \in {NEW_IMPORTANCE, NEW_IMPORTANCE + MERGE_BONUS},
          xa \in {NoTime, 0} :
          docs = [p \in Paths |-> IF p = "global.json"
                                  THEN Json(RankStore(va, vc, ia, ic, xa))
                                  ELSE Absent]
    /\ locks = [p \in Paths |-> NoMarker]
    /\ now = 0
    /\ ticks = 0
    /\ last = NoCall
    /\ target = <<"global", None>>
    /\ pc = [p \in Procs |-> "idle"]
    /\ call = [p \in Procs |-> NoCall]
    /\ local = [p \in Procs |-> EmptyStore]
    /\ calls = 0

NextRank ==
    \/ Tick(2500)
    \/ \E v \in RankValues : Set("c", v, "global", None)
    \/ \E q \in RankQueries, n \in Limits : Relevant(q, "global", None, n)

SpecRank == InitRank /\ [][NextRank]_vars

(***************************************************************************)
(* SpecConc: processes on one machine, one step per file system call       *)
(***************************************************************************)
TargetPath == get_memory_file(target[1], target[2])

\* The positions at which a process holds the lock: after acquire_lock
\* returned Ok and before the LockHandle is dropped.
Holding == {"load", "save_trunc", "save_write", "release"}

Finish(p, res, out) ==
    /\ pc' = [pc EXCEPT ![p] = "idle"]
    /\ call' = [call EXCEPT ![p] = [@ EXCEPT !.res = res, !.out = out]]

Goto(p, label) ==
    /\ pc' = [pc EXCEPT ![p] = label]
    /\ UNCHANGED call

\* CompactReport::default()
ZeroReport == [expired_removed |-> 0, merged |-> 0, promoted |-> 0, pruned |-> 0]

\* A call that goes to acquire_lock without the path.exists() test
Start_without_exists_test(p, op, key, value) ==
    /\ pc[p] = "idle"
    /\ calls < MaxCalls
    /\ calls' = calls + 1
    /\ UNCHANGED <<docs, locks, now, ticks, last, target, local>>
    /\ LET c == [Call(op, key, value, target[1], target[2], "running", {})
                   EXCEPT !.found = None] IN
       IF op \in {"get", "clear"} /\ docs[TargetPath].kind = "absent"
       THEN /\ pc' = pc
            /\ call' = [call EXCEPT ![p] = [c EXCEPT !.res = "ok"]]
       ELSE /\ call' = [call EXCEPT ![p] = c]
            /\ pc' = [pc EXCEPT ![p] =
                        CASE op = "get"   -> "read"
                          [] op = "clear" -> "clear_rm"
                          [] OTHER        -> "acq_check"]

\* A call begins: get_memory_file and the path.exists() test of
\* get / delete / clear / compact (set has none). The document is not read
\* before Load or Read.
Start(p, op, key, value) ==
    /\ pc[p] = "idle"
    /\ calls < MaxCalls
    /\ calls' = calls + 1
    /\ UNCHANGED <<docs, locks, now, ticks, last, target, local>>
    /\ LET c == [Call(op, key, value, target[1], target[2], "running", {})
                   EXCEPT !.found = None] IN
       IF op # "set" /\ docs[TargetPath].kind = "absent"
       THEN /\ pc' = pc
            /\ call' = [call EXCEPT ![p] =
                          [c EXCEPT !.res = "ok",
                                    !.out = IF op = "compact" THEN {ZeroReport} ELSE {}]]
       ELSE /\ call' = [call EXCEPT ![p] = c]
            /\ pc' = [pc EXCEPT ![p] =
                        CASE op = "get"   -> "read"
                          [] op = "clear" -> "clear_rm"
                          [] OTHER        -> "acq_check"]

\* An acquire that removes the fresh marker it is refused by
AcqCheck_unlinks_held(p) ==
    /\ pc[p] = "acq_check"
    /\ UNCHANGED <<docs, now, ticks, last, target, local, calls>>
    /\ IF locks[TargetPath] = NoMarker THEN Goto(p, "acq_create") /\ UNCHANGED locks
       ELSE IF lock_held(locks[TargetPath], now)
       THEN /\ Finish(p, "lock_held", {})
            /\ locks' = [locks EXCEPT ![TargetPath] = NoMarker]
       ELSE Goto(p, "acq_unlink") /\ UNCHANGED locks

\* acquire_lock, lines 19-36: the marker is looked at
AcqCheck(p) ==
    /\ pc[p] = "acq_check"
    /\ UNCHANGED <<docs, locks, now, ticks, last, target, local, calls>>
    /\ IF locks[TargetPath] = NoMarker THEN Goto(p, "acq_create")
       ELSE IF lock_held(locks[TargetPath], now) THEN Finish(p, "lock_held", {})
       ELSE Goto(p, "acq_unlink")

\* acquire_lock, line 40: whatever marker is there now is removed
AcqUnlink(p) ==
    /\ pc[p] = "acq_unlink"
    /\ locks' = [locks EXCEPT ![TargetPath] = NoMarker]
    /\ Goto(p, "acq_create")
    /\ UNCHANGED <<docs, now, ticks, last, target, local, calls>>

\* acquire_lock, lines 44-46: File::create makes or truncates the marker
AcqCreate(p) ==
    /\ pc[p] = "acq_create"
    /\ locks' = [locks EXCEPT ![TargetPath] = [owner |-> p, mtime |-> now]]
    /\ Goto(p, "load")
    /\ UNCHANGED <<docs, now, ticks, last, target, local, calls>>

\* What the closure of the call computes from the loaded document
closure_results(c, doc, t) ==
    LET loaded == load_or_default(doc) IN
    CASE c.op = "set"     -> set_store(loaded, c.key, c.value, c.scope, c.scope_id, t)
      [] c.op = "delete"  -> {store_delete(loaded, c.key)}
      [] c.op = "compact" -> {r.store : r \in compact_store(loaded, c.scope, t)}

\* The closure up to its save_store: load_store and the update in memory
Load(p) ==
    /\ pc[p] = "load"
    /\ \E s \in closure_results(call[p], docs[TargetPath], now) :
          local' = [local EXCEPT ![p] = s]
    /\ Goto(p, "save_trunc")
    /\ UNCHANGED <<docs, locks, now, ticks, last, target, calls>>

\* save_store, std::fs::write: the file is opened with truncation ...
SaveTrunc(p) ==
    /\ pc[p] = "save_trunc"
    /\ docs' = [docs EXCEPT ![TargetPath] = Garbage]
    /\ Goto(p, "save_write")
    /\ UNCHANGED <<locks, now, ticks, last, target, local, calls>>

\* ... and then the content is written
SaveWrite(p) ==
    /\ pc[p] = "save_write"
    /\ docs' = [docs EXCEPT ![TargetPath] = Json(local[p])]
    /\ Goto(p, "release")
    /\ UNCHANGED <<locks, now, ticks, last, target, local, calls>>

\* save_store returns an error from ensure_memory_dirs, create_dir_all,
\* to_string_pretty or the opening of the file: the document is untouched,
\* the closure returns the error and with_lock unwinds.
SaveFail(p) ==
    /\ pc[p] = "save_trunc"
    /\ pc' = [pc EXCEPT ![p] = "release"]
    /\ call' = [call EXCEPT ![p] = [@ EXCEPT !.res = "io_error"]]
    /\ UNCHANGED <<docs, locks, now, ticks, last, target, local, calls>>

\* What with_lock returns: the result of the closure
closure_result(c) == IF c.res = "running" THEN "ok" ELSE c.res

Release_ok_only(p) ==
    /\ pc[p] = "release"
    /\ locks' = [locks EXCEPT ![TargetPath] =
                    IF call[p].res = "running" THEN NoMarker ELSE @]
    /\ local' = [local EXCEPT ![p] = EmptyStore]
    /\ Finish(p, closure_result(call[p]), {})
    /\ UNCHANGED <<docs, now, ticks, last, target, calls>>

\* Drop for LockHandle: remove_file(lock_path), whoever wrote the marker
\* and whatever the closure returned
Release(p) ==
    /\ pc[p] = "release"
    /\ locks' = [locks EXCEPT ![TargetPath] = NoMarker]
    /\ local' = [local EXCEPT ![p] = EmptyStore]
    /\ Finish(p, closure_result(call[p]), {})
    /\ UNCHANGED <<docs, now, ticks, last, target, calls>>

\* Memory::get after its exists() test: load_store reads and parses
Read(p) ==
    /\ pc[p] = "read"
    /\ UNCHANGED <<docs, locks, now, ticks, last, target, local, calls>>
    /\ IF docs[TargetPath].kind = "json"
       THEN Finish(p, "ok", store_get(docs[TargetPath].entries, call[p].key, now))
       ELSE IF docs[TargetPath].kind = "garbage"
       THEN Finish(p, "parse_error", {})
       ELSE Finish(p, "ok", {})

\* Memory::clear after its exists() test: remove_file, no lock taken
ClearRm(p) ==
    /\ pc[p] = "clear_rm"
    /\ UNCHANGED <<locks, now, ticks, last, target, local, calls>>
    /\ IF docs[TargetPath].kind = "absent"
       THEN /\ Finish(p, "io_error", {})
            /\ UNCHANGED docs
       ELSE /\ docs' = [docs EXCEPT ![TargetPath] = Absent]
            /\ Finish(p, "ok", {})

ConcKeys == {"a", "c"}

NextConc ==
    \/ \E d \in {2500, LOCK_TIMEOUT_MS} : Tick(d)
    \/ \E p \in Procs :
          \/ \E k \in ConcKeys : Start(p, "set", k, "healthy")
          \/ Start(p, "get", "a", None)
          \/ Start(p, "delete", "a", None)
          \/ Start(p, "compact", None, None)
          \/ Start(p, "clear", None, None)
          \/ AcqCheck(p)
          \/ AcqUnlink(p)
          \/ AcqCreate(p)
          \/ Load(p)
          \/ SaveTrunc(p)
          \/ SaveWrite(p)
          \/ SaveFail(p)
          \/ Release(p)
          \/ Read(p)
          \/ ClearRm(p)

SpecConc == Init /\ [][NextConc]_vars

(***************************************************************************)
(* SpecAcquire: writers whose acquire_lock may fail on the marker file     *)
(***************************************************************************)
\* acquire_lock, lines 44-46, returning an error through `?`: File::create
\* failed and made nothing, or it made (or truncated) the marker and then
\* write_all or sync_all failed. No LockHandle exists yet, so nothing is
\* dropped.
AcqCreateFail(p) ==
    /\ pc[p] = "acq_create"
    /\ \/ UNCHANGED locks
       \/ locks' = [locks EXCEPT ![TargetPath] = [owner |-> p, mtime |-> now]]
    /\ Finish(p, "io_error", {})
    /\ UNCHANGED <<docs, now, ticks, last, target, local, calls>>

NextAcquire ==
    \/ Tick(LOCK_TIMEOUT_MS)
    \/ \E p \in Procs :
          \/ \E k \in ConcKeys : Start(p, "set", k, "healthy")
          \/ AcqCheck(p)
          \/ AcqUnlink(p)
          \/ AcqCreate(p)
          \/ AcqCreateFail(p)
          \/ Load(p)
          \/ SaveTrunc(p)
          \/ SaveWrite(p)
          \/ Release(p)

SpecAcquire == Init /\ [][NextAcquire]_vars

(***************************************************************************)
(* SpecRecover: writers that may crash while holding the lock, writers     *)
(* that retry after "lock held", and a clock that keeps running            *)
(***************************************************************************)
\* The process dies between acquire_lock and the drop of its LockHandle:
\* nothing removes its marker.
Crash(p) ==
    /\ pc[p] \in Holding
    /\ pc' = [pc EXCEPT ![p] = "crashed"]
    /\ call' = [call EXCEPT ![p] = [@ EXCEPT !.res = "crashed"]]
    /\ UNCHANGED <<docs, locks, now, ticks, last, target, local, calls>>

\* The caller whose call failed with "Lock file is held" makes it again
Retry(p) ==
    /\ pc[p] = "idle"
    /\ call[p].res = "lock_held"
    /\ pc' = [pc EXCEPT ![p] = "acq_check"]
    /\ call' = [call EXCEPT ![p] = [@ EXCEPT !.res = "running"]]
    /\ UNCHANGED <<docs, locks, now, ticks, last, target, local, calls>>

\* SystemTime::now() moves on while a marker younger than the timeout is
\* on disk; the readings in between are not told apart.
Elapse ==
    /\ locks[TargetPath] # NoMarker
    /\ lock_age(locks[TargetPath], now) < LOCK_TIMEOUT_MS
    /\ now' = now + 2500
    /\ UNCHANGED <<docs, locks, ticks, last, target, procvars>>

\* A writer makes its one call, which it retries when refused
StartOnce(p) ==
    /\ call[p] = NoCall
    /\ Start(p, "set", "a", "healthy")

\* The steps of a process that is running
Step(p) ==
    \/ AcqCheck(p)
    \/ AcqUnlink(p)
    \/ AcqCreate(p)
    \/ Load(p)
    \/ SaveTrunc(p)
    \/ SaveWrite(p)
    \/ Release(p)

NextRecover ==
    \/ Elapse
    \/ \E p \in Procs :
          \/ StartOnce(p)
          \/ AcqCheck(p)
          \/ AcqUnlink(p)
          \/ AcqCreate(p)
          \/ Load(p)
          \/ SaveTrunc(p)
          \/ SaveWrite(p)
          \/ Release(p)
          \/ Crash(p)
          \/ Retry(p)

\* The clock runs, a process that has not crashed takes its next step, and
\* a caller that was refused tries again.
FairRecover ==
    /\ WF_vars(Elapse)
    /\ \A p \in Procs : WF_vars(Step(p)) /\ WF_vars(Retry(p))

SpecRecover == Init /\ [][NextRecover]_vars /\ FairRecover

(***************************************************************************)
(* Claims about the lock and the documents under concurrency (SpecConc)    *)
(***************************************************************************)
\* C1: at most one process is between a successful acquire and its release
\* on the same document path.
C1_MutualExclusion ==
    Cardinality({p \in Procs : pc[p] \in Holding}) <= 1

\* C2: a lock-free reader that runs while a writer saves the same document
\* sees the whole old or the whole new document: a get on a document that
\* only this program writes never fails to parse what it reads.
C2_ReadersSeeWholeDocument ==
    \A p \in Procs : ~(call[p].op = "get" /\ call[p].res = "parse_error")

\* C9: no mutation of a document happens between another mutating
\* operation's load and its save: while a process has loaded and not yet
\* finished saving, a step of any other process leaves the document alone.
C9_MutationsSerialized ==
    [][\A p \in Procs :
          (pc[p] \in {"save_trunc", "save_write"} /\ pc'[p] = pc[p])
              => docs' = docs]_vars

\* C10: acquire_lock on a path whose marker exists with an age below 5000 ms
\* returns the lock-held error at once: the caller is back with that error
\* after this one step, its closure has not run, and the marker and the
\* document are as they were.
C10_FailFastAcquire ==
    [][\A p \in Procs :
          ( /\ pc[p] = "acq_check"
            /\ pc'[p] # "acq_check"
            /\ locks[TargetPath] # NoMarker
            /\ now >= locks[TargetPath].mtime
            /\ now - locks[TargetPath].mtime < LOCK_TIMEOUT_MS )
          => ( /\ pc'[p] = "idle"
               /\ call'[p].res = "lock_held"
               /\ locks' = locks
               /\ docs' = docs
               /\ local' = local )]_vars

\* C10 witness: a caller was turned away with lock-held while another
\* process holds the lock under a fresh marker.
C10_Witness ==
    \E p, q \in Procs :
        /\ p # q
        /\ pc[p] = "idle" /\ call[p].res = "lock_held"
        /\ pc[q] \in Holding
        /\ locks[TargetPath] # NoMarker
        /\ locks[TargetPath].owner = q
        /\ now - locks[TargetPath].mtime < LOCK_TIMEOUT_MS

\* C30: when a set and a set or delete of another key, made by two
\* processes on the same document, have both returned ok, the document
\* holds the key of the set; the cap plays no part, since the keys of the
\* document and of the two calls together are not more than the cap.
C30_NoLostUpdate ==
    \A p, o \in Procs :
        ( /\ p # o
          /\ pc[p] = "idle" /\ pc[o] = "idle"
          /\ call[p].op = "set" /\ call[p].res = "ok"
          /\ call[o].op \in {"set", "delete"} /\ call[o].res = "ok"
          /\ call[o].key # call[p].key
          /\ Cardinality(DOMAIN docs[TargetPath].entries
                           \cup {call[p].key, call[o].key}) <= scope_limit(target[1]) )
        => ( /\ docs[TargetPath].kind = "json"
             /\ call[p].key \in DOMAIN docs[TargetPath].entries )

\* C33: a set, delete or compact that returns the lock-held error has
\* returned it from the look at the marker, the first thing the call does
\* after it began, and neither the beginning of such a call nor that look
\* changes a document, a marker or the caller's loaded store: the target
\* document is as it was before the call and the other holder's marker is
\* neither removed nor rewritten.
C33_LockHeldChangesNothing ==
    [][\A p \in Procs :
          ( /\ pc'[p] # pc[p]
            /\ call'[p].op \in {"set", "delete", "compact"} )
          => /\ call'[p].res = "lock_held"
                  => /\ pc[p] = "acq_check" /\ pc'[p] = "idle"
                     /\ lock_held(locks[TargetPath], now)
                     /\ locks[TargetPath].owner # p
                     /\ docs' = docs /\ locks' = locks /\ local' = local
             /\ pc'[p] = "acq_check"
                  => /\ pc[p] = "idle"
                     /\ docs' = docs /\ locks' = locks /\ local' = local]_vars

\* C33 witness: a delete or compact was refused with lock-held while the
\* other process, the owner of the marker, is in the middle of its save and
\* the marker is still on disk.
C33_Witness ==
    \E p, q \in Procs :
        /\ p # q
        /\ pc[p] = "idle" /\ call[p].res = "lock_held"
        /\ call[p].op \in {"delete", "compact"}
        /\ pc[q] = "save_write"
        /\ locks[TargetPath] # NoMarker /\ locks[TargetPath].owner = q

\* C38: a delete or compact of a document that does not exist returns ok
\* in its first step, compact with the all-zero report, and leaves the
\* documents and the markers as they were (no lock is taken, no document
\* made); and a compact changes the document only in its one save, after
\* its passes, so a compact that fails before or in opening that save
\* has changed nothing.
C38_AbsentAndSingleSave ==
    [][\A p \in Procs :
          /\ ( /\ pc[p] = "idle" /\ call'[p] # call[p]
               /\ call'[p].op \in {"delete", "compact"}
               /\ docs[TargetPath].kind = "absent" )
             => /\ pc'[p] = "idle" /\ call'[p].res = "ok"
                /\ call'[p].out = IF call'[p].op = "compact" THEN {ZeroReport} ELSE {}
                /\ docs' = docs /\ locks' = locks
          /\ ( /\ call'[p].op = "compact"
               /\ pc'[p] # pc[p] \/ call'[p] # call[p]
               /\ docs' # docs )
             => /\ pc[p] \in {"save_trunc", "save_write"}
                /\ pc'[p] \in {"save_write", "release"}
                /\ call'[p].res = "running"
                /\ pc[p] = "save_write" => docs'[TargetPath] = Json(local[p])]_vars

\* C38 witness: a compact of a document that does not exist has returned
\* ok with the all-zero report while the other process holds the lock of
\* that document, its marker on disk, and the document still does not
\* exist.
C38_Witness ==
    \E p, q \in Procs :
        /\ p # q
        /\ pc[p] = "idle" /\ call[p].op = "compact" /\ call[p].res = "ok"
        /\ call[p].out = {ZeroReport}
        /\ pc[q] \in Holding
        /\ locks[TargetPath] # NoMarker /\ locks[TargetPath].owner = q
        /\ docs[TargetPath].kind = "absent"

\* C39: when acquire_lock returns an error, lock held or a failure on the
\* marker file, no marker made by that call is on disk afterwards.
C39_FailedAcquireLeavesNoMarker ==
    [][\A p \in Procs :
          ( /\ pc[p] \in {"acq_check", "acq_unlink", "acq_create"}
            /\ pc'[p] = "idle"
            /\ call'[p].res \in {"lock_held", "io_error"} )
          => ~( /\ locks'[TargetPath] # NoMarker
                /\ locks'[TargetPath].owner = p
                /\ locks'[TargetPath] # locks[TargetPath] )]_vars

\* C40: a set, delete or compact that finds a marker whose modification
\* time is later than its clock reading treats the marker as held: it
\* returns the lock-held error and leaves the marker and the document as
\* they were (the age is computed without overflow, panic or a huge
\* value).
C40_FutureMarkerHeld ==
    [][( /\ ticks' = ticks
         /\ last'.op \in {"set", "delete", "compact"}
         /\ last'.found # "absent" \/ last'.op = "set"
         /\ locks[TargetPath] # NoMarker
         /\ locks[TargetPath].mtime > now )
          => /\ last'.res = "lock_held"
             /\ locks' = locks
             /\ docs' = docs]_vars

\* C32: the drop of a LockHandle removes only the marker its holder wrote:
\* when the marker on disk is another process's, the release leaves it.
C32_ReleaseOnlyOwnMarker ==
    [][\A p \in Procs :
          ( /\ pc[p] = "release" /\ pc'[p] = "idle"
            /\ locks[TargetPath] # NoMarker
            /\ locks[TargetPath].owner # p )
          => locks' = locks]_vars

(***************************************************************************)
(* Claims about the store, one caller (Spec)                               *)
(***************************************************************************)
TargetStore == docs[TargetPath].entries

\* A step of Spec is a call of `op` that returned ok: every step but the
\* clock's is a call, recorded in last.
Returned(op) == ticks' = ticks /\ last'.op = op /\ last'.res = "ok"

\* C3: a set that returned ok, followed at once by a get of the same key,
\* scope and scope_id, returns an entry whose value is the value set.
C3_RoundTrip ==
    (last.op = "set" /\ last.res = "ok")
        => \E e \in memory_get(last.key, last.scope, last.scope_id)[2] :
              e.value = last.value

\* C4: the number of entries of every persisted document is at most the
\* cap of its scope.
C4_CapacityInvariant ==
    \A path \in Paths :
        Cardinality(DOMAIN docs[path].entries) <= scope_limit(scope_of(path))

\* C4 witness: a set into a full store returned ok, the store is at its cap
\* and the enforcer has evicted (the key just set is the one that went).
C4_Witness ==
    /\ last.op = "set" /\ last.res = "ok"
    /\ Cardinality(DOMAIN TargetStore) = scope_limit(target[1])
    /\ last.key \notin DOMAIN TargetStore

C31_SetKeepsNewKey ==
    [][Returned("set") => last'.key \in DOMAIN docs'[TargetPath].entries]_vars

\* expires_at of the entry is in the past
Past(e) == e.expires_at # NoTime /\ e.expires_at < now

\* C6, the reads: whatever get, list, search and relevant return in the
\* current state holds no entry whose expires_at is in the past.
C6_ExpiredHidden ==
    /\ \A k \in Keys : \A e \in memory_get(k, target[1], target[2])[2] : ~Past(e)
    /\ \A c \in Categories \cup {None} :
          \A e \in memory_list(target[1], target[2], c)[2] : ~Past(e)
    /\ \A q \in Queries, n \in Limits :
          /\ \A R \in memory_search(q, n)[2] : \A e \in R : ~Past(e)
          /\ \A r \in memory_relevant(q, target[1], target[2], n)[2] :
                \A i \in DOMAIN r : ~Past(r[i])

\* C6, the writes: across a call, an expired entry of the document stays as
\* it is through every read, every failed call, a delete of another key and
\* a set of another key that does not overflow the store; a compact that
\* returns ok removes it.
C6_ExpiredKeptUntilCompact ==
    \A k \in DOMAIN TargetStore :
        (Past(TargetStore[k]) /\ ticks' = ticks) =>
            /\ ( \/ last'.op \in {"get", "list"}
                 \/ last'.res # "ok"
                 \/ last'.op = "delete" /\ last'.key # k
                 \/ /\ last'.op = "set" /\ last'.key # k
                    /\ Cardinality(DOMAIN TargetStore \cup {last'.key})
                          <= scope_limit(target[1]) )
               => ( /\ k \in DOMAIN docs'[TargetPath].entries
                    /\ docs'[TargetPath].entries[k] = TargetStore[k] )
            /\ (last'.op = "compact" /\ last'.res = "ok")
               => k \notin DOMAIN docs'[TargetPath].entries

\* C6: an entry whose expires_at is in the past is never returned by get,
\* list, search or relevant while it is still in the document; it stays in
\* the document through set and delete of other keys and is removed by
\* compact (or by eviction or clear).
C6_ExpiryVisibility ==
    []C6_ExpiredHidden /\ [][C6_ExpiredKeptUntilCompact]_vars

\* C6 witness: the expired entry is still in the document after a set of
\* another key made after its expiry, and a get of its key returned nothing.
C6_Witness ==
    /\ last.op = "get" /\ last.res = "ok" /\ last.out = {}
    /\ last.key \in DOMAIN TargetStore
    /\ Past(TargetStore[last.key])
    /\ \E k \in DOMAIN TargetStore :
          TargetStore[k].created_at > TargetStore[last.key].expires_at

\* C7: the stored importance of a key that stays present never decreases
\* from one persisted state of its store to the next.
C7_ImportanceNeverDecreases ==
    [][\A k \in DOMAIN TargetStore \cap DOMAIN docs'[TargetPath].entries :
          docs'[TargetPath].entries[k].importance >= TargetStore[k].importance]_vars

\* C8: a set that returned ok for a key present in the document,
\* expired or not, leaves an entry with the new value, fresh timestamps and
\* the category of the previous entry.
C8_CategoryKeptOnAnyOverwrite ==
    [][(Returned("set") /\ last'.key \in DOMAIN TargetStore)
          => /\ last'.key \in DOMAIN docs'[TargetPath].entries
             /\ docs'[TargetPath].entries[last'.key].value = last'.value
             /\ docs'[TargetPath].entries[last'.key].created_at = now
             /\ docs'[TargetPath].entries[last'.key].updated_at = now
             /\ docs'[TargetPath].entries[last'.key].category = TargetStore[last'.key].category]_vars

C12_StaleLockRecovery ==
    /\ [][\A p \in Procs :
            (/\ pc[p] = "acq_check" /\ pc'[p] # "acq_check"
             /\ locks[TargetPath] # NoMarker
             /\ now - locks[TargetPath].mtime >= LOCK_TIMEOUT_MS)
               => pc'[p] = "acq_unlink"]_vars
    /\ \A p \in Procs : (pc[p] = "acq_check") ~> (pc[p] = "load")

\* C12 witness: one process crashed holding the lock and the other holds
\* the lock now, on a marker of its own.
C12_Witness ==
    \E p, q \in Procs :
       /\ pc[p] = "crashed"
       /\ pc[q] \in Holding
       /\ locks[TargetPath].owner = q
       /\ now >= LOCK_TIMEOUT_MS

(***************************************************************************)
(* Claims about any (scope, scope_id) pair, one caller (SpecPaths)         *)
(***************************************************************************)
\* C17: set, get, delete, list, relevant, clear and compact called with
\* scope Agent, Team or Task and no scope_id return the missing-scope-id
\* error, leave every marker as it is and create or modify no document.
C17_MissingScopeId ==
    [][(last'.scope \in {"agent", "team", "task"} /\ last'.scope_id = None)
          => /\ last'.res = ErrMissingScopeId
             /\ docs' = docs
             /\ locks' = locks]_vars

\* C17 witness: a set without scope_id has been refused while documents
\* with entries and a marker are on disk.
C17_Witness ==
    /\ last.op = "set" /\ last.scope = "team" /\ last.scope_id = None
    /\ last.res = ErrMissingScopeId
    /\ \E p \in Paths : docs[p].kind = "json" /\ locks[p] # NoMarker

\* C18: a set with scope Agent, Team or Task and the empty scope_id is
\* refused, and no document is created for the empty id.
C18_EmptyScopeIdRejected ==
    (last.op = "set" /\ last.scope \in {"agent", "team", "task"}
        /\ last.scope_id = "")
       => (last.res # "ok" /\ docs["tasks/.json"].kind = "absent")

\* The store a pair names: the Global scope has one store, whatever the
\* scope_id passed with it
store_of(scope, scope_id) ==
    IF scope = "global" THEN <<"global", None>> ELSE <<scope, scope_id>>

\* C19: a call on one (scope, scope_id) pair leaves the document of every
\* other pair as it was.
C19_IndependentStores ==
    [][\A r \in AnyRequests :
          (/\ get_memory_file(r[1], r[2]) \in Paths
           /\ store_of(last'.scope, last'.scope_id) # store_of(r[1], r[2]))
             => docs'[get_memory_file(r[1], r[2])] = docs[get_memory_file(r[1], r[2])]]_vars

\* C36: in a memory directory that was empty before the run, after any
\* sequence of set, delete, compact and clear every entry of every
\* document has the key it is stored under, the scope and scope_id of the
\* store that holds it, created_at <= updated_at, importance >= 1.0 and no
\* expires_at.
C36_WellFormedEntries ==
    \A path \in Paths : \A k \in DOMAIN docs[path].entries :
       LET e == docs[path].entries[k] IN
       /\ e.key = k
       /\ e.scope = scope_of(path)
       /\ e.scope_id = id_of(path)
       /\ e.created_at <= e.updated_at
       /\ e.importance >= NEW_IMPORTANCE
       /\ e.expires_at = NoTime

\* C29: on a document that parses, list without a category returns
\* exactly the unexpired entries whose scope is the requested one and
\* whose scope_id is the requested one when the request has one; list
\* with a category returns exactly the unexpired entries of that category,
\* whatever their scope and scope_id.
C29_ListFiltering ==
    [][(ticks' = ticks /\ last'.op = "list" /\ last'.found = "json")
          => LET entries == docs[get_memory_file(last'.scope, last'.scope_id)].entries
                 live    == {entries[k] : k \in {x \in DOMAIN entries : ~Past(entries[x])}}
             IN  /\ last'.res = "ok"
                 /\ last'.key = None =>
                       last'.out = {e \in live :
                                      /\ e.scope = last'.scope
                                      /\ last'.scope_id # None
                                            => e.scope_id = last'.scope_id}
                 /\ last'.key # None =>
                       last'.out = {e \in live : e.category = last'.key}]_vars

\* C29 witness: a list with a category has returned an entry whose scope
\* is not the requested one, from a document that holds an entry of the
\* Global scope with a scope_id.
C29_Witness ==
    /\ last.op = "list" /\ last.res = "ok" /\ last.key = "notes"
    /\ \E e \in last.out : e.scope # last.scope

\* C24: after a clear that returned ok the document of the store does not
\* exist, so get and list return nothing for it, and the document of every
\* other store is as it was.
C24_ClearFrame ==
    [][(ticks' = ticks /\ last'.op = "clear" /\ last'.res = "ok")
          => LET path == get_memory_file(last'.scope, last'.scope_id) IN
             /\ docs'[path].kind = "absent"
             /\ \A r \in AnyRequests :
                   (/\ get_memory_file(r[1], r[2]) \in Paths
                    /\ store_of(r[1], r[2]) # store_of(last'.scope, last'.scope_id))
                      => docs'[get_memory_file(r[1], r[2])].kind
                            = docs[get_memory_file(r[1], r[2])].kind]_vars

(***************************************************************************)
(* Claims about the reads of a whole memory directory (SpecScan)           *)
(***************************************************************************)
\* The documents of a scope family, whatever their file names
family(scope) == {p \in Paths : scope_of(p) = scope}

\* The entries in the documents of P
entries_in(P) ==
    UNION {{docs[p].entries[k] : k \in DOMAIN docs[p].entries} : p \in P}

\* C37: get, list, search, relevant and stats take no lock and change
\* nothing: each of them leaves every document and every lock marker as
\* it was, never returns the lock-held error, and returns ok whenever the
\* documents it loads with load_store are absent or parse, a fresh marker
\* on them or not.
C37_ReadsTakeNoLock ==
    [][(ticks' = ticks
          /\ last'.op \in {"get", "list", "search", "relevant", "stats"})
          => /\ docs' = docs
             /\ locks' = locks
             /\ last'.res \in {"ok", "parse_error"}
             /\ LET path == IF last'.op \in {"search", "stats"} THEN "global.json"
                            ELSE get_memory_file(last'.scope, last'.scope_id)
                IN  docs[path].kind # "garbage" => last'.res = "ok"]_vars

\* C37 witness: a get has returned the entry of its key from a document
\* whose lock marker is on disk and younger than the timeout.
C37_Witness ==
    /\ last.op = "get" /\ last.res = "ok" /\ last.out # {}
    /\ lock_held(locks[get_memory_file(last.scope, last.scope_id)], now)

\* C21: a get, list, relevant, search or stats that reads a document which
\* exists but cannot be parsed returns an error, whatever the family of
\* the document.
C21_ReadsSurfaceCorruption ==
    /\ (last.op \in {"get", "list", "relevant"} /\ last.found = "garbage")
          => last.res = "parse_error"
    /\ (/\ last.op = "search"
        /\ \E p \in family("global") \cup family("agent") \cup family("team") :
              docs[p].kind = "garbage")
          => last.res = "parse_error"
    /\ (last.op = "stats" /\ \E p \in Paths : docs[p].kind = "garbage")
          => last.res = "parse_error"

\* C25: what search(query, limit) returns in the current state has at
\* most limit entries, each unexpired, matching the query and from a
\* Global, Agent or Team document, never from a Task document; and it is
\* every matching entry of those documents when they are at most limit.
C25_SearchScopeAndLimit ==
    \A n \in Limits :
       memory_search("build", n)[1] = "ok" =>
          LET searched == family("global") \cup family("agent") \cup family("team")
              matching == {e \in entries_in(searched) :
                             /\ ~Past(e)
                             /\ to_lowercase(e.value) \in
                                   {"build succeeded", "build succeeded!!"}}
          IN  \A R \in memory_search("build", n)[2] :
                 /\ Cardinality(R) <= n
                 /\ R \subseteq matching
                 /\ R \cap entries_in(family("task")) = {}
                 /\ Cardinality(matching) <= n => R = matching

\* C26: stats reports, for every family, the number of entries in the
\* documents of the family, expired ones included, and their sum as total.
C26_StatsCountsRawEntries ==
    (last.op = "stats" /\ last.res = "ok")
       => \A r \in last.out :
             /\ r.global = entry_count(family("global"))
             /\ r.agents = entry_count(family("agent"))
             /\ r.teams = entry_count(family("team"))
             /\ r.tasks = entry_count(family("task"))
             /\ r.total = r.global + r.agents + r.teams + r.tasks

(***************************************************************************)
(* Claims about delete, one caller (Spec)                                  *)
(***************************************************************************)
\* C23: after a delete that returned ok, a get of the key returns nothing
\* and every other entry of the store is as it was, field by field; a
\* delete of a key that is not in the store returns ok and leaves the
\* entries as they were (and creates no document).
C23_DeleteFrame ==
    [][Returned("delete")
          => /\ store_get(docs'[TargetPath].entries, last'.key, now') = {}
             /\ DOMAIN docs'[TargetPath].entries = DOMAIN TargetStore \ {last'.key}
             /\ \A k \in DOMAIN docs'[TargetPath].entries :
                   docs'[TargetPath].entries[k] = TargetStore[k]
             /\ last'.key \notin DOMAIN TargetStore
                   => docs'[TargetPath].entries = TargetStore
             /\ docs[TargetPath].kind = "absent" => docs' = docs]_vars

\* C23 witness: a delete has returned ok on a document that holds other
\* entries, which are still there.
C23_Witness ==
    /\ last.op = "delete" /\ last.res = "ok" /\ last.found = "json"
    /\ last.key \notin DOMAIN TargetStore
    /\ Cardinality(DOMAIN TargetStore) >= 1

(***************************************************************************)
(* Claims about the reads, one caller (SpecQuery)                          *)
(***************************************************************************)
\* The step is a call of `op` on the target, whatever it returned
Called(op) ==
    /\ ticks' = ticks /\ last'.op = op
    /\ <<last'.scope, last'.scope_id>> = target

\* C22: get returns the entry of the key if and only if the key is in the
\* target document and its entry is not expired; on a document that does
\* not exist get returns nothing and list and relevant return no entry,
\* all three with ok; and no get, list or relevant changes or creates a
\* document.
C22_GetIffPresent ==
    [][/\ Called("get") =>
            /\ docs' = docs
            /\ last'.res = "ok"
            /\ last'.out = IF /\ last'.key \in DOMAIN TargetStore
                              /\ ~Past(TargetStore[last'.key])
                           THEN {TargetStore[last'.key]} ELSE {}
       /\ Called("list") =>
            /\ docs' = docs
            /\ docs[TargetPath].kind = "absent" => last'.res = "ok" /\ last'.out = {}
       /\ Called("relevant") =>
            /\ docs' = docs
            /\ docs[TargetPath].kind = "absent"
                  => last'.res = "ok" /\ last'.out = {<<>>}]_vars

\* C22 witness: a get has returned the entry of its key while another
\* entry of the document is expired.
C22_Witness ==
    /\ last.op = "get" /\ last.res = "ok"
    /\ last.key \in DOMAIN TargetStore
    /\ last.out = {TargetStore[last.key]}
    /\ \E k \in DOMAIN TargetStore : Past(TargetStore[k])

(***************************************************************************)
(* Claims about the ranker, one caller (SpecRank)                          *)
(***************************************************************************)
\* C27: relevant returns at most `limit` entries, each an unexpired entry
\* of the target store, in non-increasing order of the score computed from
\* the stored entry; and a call of relevant leaves every document, so the
\* stored importance of every entry, as it was.
C27_RelevantOrdered ==
    /\ [](\A q \in RankQueries, n \in Limits :
            \A r \in memory_relevant(q, target[1], target[2], n)[2] :
               /\ Len(r) <= n
               /\ \A i \in DOMAIN r :
                     /\ r[i].key \in DOMAIN TargetStore
                     /\ ~Past(TargetStore[r[i].key])
                     /\ [r[i] EXCEPT !.importance = TargetStore[r[i].key].importance]
                           = TargetStore[r[i].key]
               /\ \A i, j \in DOMAIN r :
                     i < j => relevance_score(TargetStore[r[i].key], q)
                                >= relevance_score(TargetStore[r[j].key], q))
    /\ [][Called("relevant") =>
            /\ docs' = docs
            /\ \E n \in Limits :
                  last'.out \subseteq memory_relevant(last'.key, target[1], target[2], n)[2]]_vars

\* C27 witness: relevant has returned two entries of different scores, the
\* first one the higher, and the document still holds the first one with
\* the importance it had, not with the score.
C27_Witness ==
    /\ last.op = "relevant" /\ last.res = "ok" /\ last.key = "build"
    /\ \E r \in last.out :
          /\ Len(r) = 2
          /\ r[1].importance > r[2].importance
          /\ r[1].key \in DOMAIN TargetStore
          /\ TargetStore[r[1].key].importance # r[1].importance
          /\ TargetStore[r[1].key].importance
                \in {NEW_IMPORTANCE, NEW_IMPORTANCE + MERGE_BONUS}

\* For every query and every two unexpired entries of the target store of
\* equal importance and updated_at of which exactly one holds the query in
\* its key or value: the score of that one is at least `least` thousandths
\* above the other's (relevance_score counts 64 units to the thousandth),
\* and wherever the other is in a result of relevant, that one is before it.
ScoreGap(least) ==
    \A q \in RankQueries : \A k1, k2 \in DOMAIN TargetStore :
       LET e1 == TargetStore[k1]
           e2 == TargetStore[k2]
       IN  /\ ~Past(e1) /\ ~Past(e2)
           /\ e1.importance = e2.importance /\ e1.updated_at = e2.updated_at
           /\ contains_lower(e1.key, q) \/ contains_lower(e1.value, q)
           /\ ~(contains_lower(e2.key, q) \/ contains_lower(e2.value, q))
           => /\ relevance_score(e1, q) - relevance_score(e2, q) >= 64 * least
              /\ \A n \in Limits :
                    \A r \in memory_relevant(q, target[1], target[2], n)[2] :
                       \A j \in DOMAIN r :
                          r[j].key = k2 => \E i \in 1..(j - 1) : r[i].key = k1

\* C28 as stated: of two entries equal in importance and updated_at of
\* which exactly one holds the non-empty query as a substring of its key
\* or value, that one scores at least 4.0 higher and is before the other in
\* the result of relevant.
C28_RankingMonotonicity == ScoreGap(4000)

\* C28, amended: that one scores at least 1.0 higher (the +4.0 for the
\* whole query less at most 3.0 of cosine similarity the other may have
\* over it) and is before the other in the result of relevant.
C28_ContainingRanksFirst == ScoreGap(1000)

\* C28 witness: relevant has ranked, for the query "build succeeded", an
\* entry that holds the query ("rebuild succeeded") before one of the same
\* importance and updated_at that holds only its words ("build has
\* succeeded"), with less than 4.0 between their scores.
C28_Witness ==
    /\ last.op = "relevant" /\ last.res = "ok" /\ last.key = "build succeeded"
    /\ \E r \in last.out :
          /\ Len(r) = 2
          /\ r[1].value = "rebuild succeeded" /\ r[2].value = "build has succeeded"
          /\ TargetStore[r[1].key].importance = TargetStore[r[2].key].importance
          /\ r[1].updated_at = r[2].updated_at
          /\ r[1].importance - r[2].importance < 64 * 4000
          /\ r[1].importance - r[2].importance >= 64 * 1000

(***************************************************************************)
(* Claims about compact and the write paths, one caller (SpecWrite)        *)
(***************************************************************************)
\* The step is a compact that returned ok on a document that existed
Compacted == Returned("compact") /\ last'.found # "absent"

\* The report of the compact that has just returned
Report == CHOOSE r \in last'.out : TRUE

\* The entries of the target document after the step
After == docs'[TargetPath].entries

\* C13: the entry count of the persisted document after a compact is at
\* most the count before it.
C13_CompactNeverGrows ==
    [][Returned("compact")
          => Cardinality(DOMAIN After) <= Cardinality(DOMAIN TargetStore)]_vars

\* C13 witness: a compact has returned that took entries away and left
\* some.
C13_Witness ==
    /\ last.op = "compact" /\ last.res = "ok"
    /\ \E r \in last.out : r.expired_removed + r.merged > 0
    /\ DOMAIN TargetStore # {}

\* The place of a key in the sorted order of the keys
key_index(k) == CHOOSE i \in DOMAIN KeyOrder : KeyOrder[i] = k

\* C14: when compact merges two entries, the one with the earlier key in
\* sorted order survives with its key and value unchanged, its updated_at
\* the maximum of both and its importance the maximum of both plus 0.2
\* (plus the promotion of the same run if its key matches); the one with
\* the later key is deleted, and merged counts one per deleted entry.
C14_MergeRule ==
    [][(Compacted /\ Report.pruned = 0)
          => LET live == {k \in DOMAIN TargetStore : ~Past(TargetStore[k])}
                 gone == live \ DOMAIN After
             IN  /\ Report.merged = Cardinality(gone)
                 /\ \A y \in gone : \E x \in DOMAIN After :
                       /\ key_index(x) < key_index(y)
                       /\ After[x].key = x
                       /\ After[x].value = TargetStore[x].value
                       /\ Cardinality(gone) = 1 =>
                            /\ After[x].updated_at =
                                 Max(TargetStore[x].updated_at, TargetStore[y].updated_at)
                            /\ After[x].importance =
                                 Max(TargetStore[x].importance, TargetStore[y].importance)
                                   + MERGE_BONUS
                                   + (IF high_signal(x) THEN PROMOTE_BONUS ELSE 0)]_vars

\* C14 witness: a compact has merged two entries and the survivor carries
\* the later entry's updated_at.
C14_Witness ==
    /\ last.op = "compact" /\ last.res = "ok"
    /\ \E r \in last.out : r.merged = 1
    /\ \E k \in DOMAIN TargetStore :
          /\ TargetStore[k].updated_at > TargetStore[k].created_at
          /\ TargetStore[k].importance >= NEW_IMPORTANCE + MERGE_BONUS

\* C15: after a compact that returned ok the document holds no entry that
\* was expired when compact ran, and expired_removed is the number of
\* entries that were expired in the loaded document.
C15_ExpirePass ==
    [][Compacted
          => /\ \A k \in DOMAIN TargetStore : Past(TargetStore[k]) => k \notin DOMAIN After
             /\ Report.expired_removed =
                  Cardinality({k \in DOMAIN TargetStore : Past(TargetStore[k])})]_vars

\* C15 witness: a compact has reported an expired entry removed.
C15_Witness ==
    /\ last.op = "compact" /\ last.res = "ok"
    /\ \E r \in last.out : r.expired_removed >= 1

\* C16: a compact run adds 0.3 to the importance of every entry that
\* survives the merge pass and whose lowercased key matches, every time it
\* runs, leaves the importance of the other entries it does not merge as
\* it was, and reports the number of matching entries as promoted.
C16_PromotionPass ==
    [][(Compacted /\ Report.pruned = 0)
          => /\ Report.promoted =
                  Cardinality({k \in DOMAIN After : to_lowercase(k) = "b.owner"})
             /\ Report.merged = 0 =>
                  \A k \in DOMAIN After :
                     After[k].importance =
                        TargetStore[k].importance
                          + (IF to_lowercase(k) = "b.owner" THEN PROMOTE_BONUS ELSE 0)]_vars

\* C16 witness: two compact runs have promoted the same entry, which now
\* has its first importance plus 0.6.
C16_Witness ==
    /\ last.op = "compact" /\ last.res = "ok"
    /\ \E r \in last.out : r.promoted = 1 /\ r.merged = 0
    /\ \E k \in DOMAIN TargetStore :
          TargetStore[k].importance = NEW_IMPORTANCE + 2 * PROMOTE_BONUS

\* C34: after a compact that returned ok no two entries of the document
\* are similar under the merge criterion, and a compact of that document
\* at the same clock reading reports merged = 0 and expired_removed = 0
\* and removes no entry. The merge loops leave no two similar entries in
\* any store of three keys either, whichever of them are similar, and find
\* nothing to merge when run again.
C34_MergeIdempotent ==
    /\ [][Compacted
            => /\ \A x, y \in DOMAIN After :
                     x # y => ~similar(After[x], After[y])
               /\ \A r \in compact_store(After, target[1], now') :
                     /\ DOMAIN r.store = DOMAIN After
                     /\ \A rep \in r.report :
                           rep.merged = 0 /\ rep.expired_removed = 0]_vars
    /\ [](last = NoCall =>
            \A vals \in [Keys -> Values \cup {"healthy"}] :
               LET store == [k \in Keys |-> NewEntry(k, vals[k], "global", None, 0)]
                   m     == merge_loop([store |-> store, merged |-> 0],
                                       sorted_keys(store), 1, 2)
                   again == merge_loop([store |-> m.store, merged |-> 0],
                                       sorted_keys(m.store), 1, 2)
               IN  /\ \A x, y \in DOMAIN m.store :
                         x # y => ~similar(m.store[x], m.store[y])
                   /\ m.merged = Cardinality(Keys) - Cardinality(DOMAIN m.store)
                   /\ again.merged = 0 /\ again.store = m.store)

\* C34 witness: a compact has merged two similar entries into one and the
\* document it saved holds that one entry, with the merge bonus.
C34_Witness ==
    /\ last.op = "compact" /\ last.res = "ok" /\ last.found = "json"
    /\ \E r \in last.out : r.merged = 1 /\ r.expired_removed = 0
    /\ Cardinality(DOMAIN TargetStore) = 1
    /\ \A k \in DOMAIN TargetStore :
          /\ TargetStore[k].importance >= NEW_IMPORTANCE + MERGE_BONUS
          /\ TargetStore[k].value \in Values

\* C35: for every compact that returned ok on a document that existed,
\* the entries before less the entries after are expired_removed + merged
\* + pruned; expired_removed is the number of expired entries loaded,
\* merged the number of unexpired entries the merge pass took (no entry
\* twice), pruned the number over the cap after the first two passes; and
\* promoted is at most the entries after plus pruned.
C35_ReportAccounting ==
    [][Compacted
          => LET before  == Cardinality(DOMAIN TargetStore)
                 after   == Cardinality(DOMAIN After)
                 expired == {k \in DOMAIN TargetStore : Past(TargetStore[k])}
             IN  /\ before - after
                       = Report.expired_removed + Report.merged + Report.pruned
                 /\ Report.expired_removed = Cardinality(expired)
                 /\ Report.merged <= before - Cardinality(expired)
                 /\ Report.pruned =
                       Max(0, before - Report.expired_removed - Report.merged
                                - scope_limit(target[1]))
                 /\ Report.pruned = 0 =>
                       Report.merged =
                          Cardinality((DOMAIN TargetStore \ expired) \ DOMAIN After)
                 /\ Report.promoted <= after + Report.pruned]_vars

\* C35 witness: a compact has removed an expired entry and promoted the
\* entry it kept, and reported one of each.
C35_Witness ==
    /\ last.op = "compact" /\ last.res = "ok" /\ last.found = "json"
    /\ \E r \in last.out :
          r.expired_removed = 1 /\ r.promoted = 1 /\ r.merged = 0 /\ r.pruned = 0
    /\ Cardinality(DOMAIN TargetStore) = 1

\* C20: set, delete and compact on a document that exists but cannot be
\* parsed return ok and go on from the empty store: after the set the
\* document holds exactly the entry set, after the delete or the compact it
\* holds no entry.
C20_WritePathsTolerateCorruption ==
    [][(ticks' = ticks /\ last'.found = "garbage"
            /\ last'.op \in {"set", "delete", "compact"})
          => /\ last'.res = "ok"
             /\ docs'[TargetPath].kind = "json"
             /\ IF last'.op = "set"
                THEN /\ DOMAIN After = {last'.key}
                     /\ After[last'.key].value = last'.value
                ELSE DOMAIN After = {}]_vars

\* C20 witness: a set on a document that could not be parsed has returned
\* ok and the document holds the entry set and nothing else.
C20_Witness ==
    /\ last.op = "set" /\ last.found = "garbage" /\ last.res = "ok"
    /\ DOMAIN TargetStore = {last.key}

=============================================================================
